---- MODULE Spec2Model ----
(***************************************************************************)
(* A model of the ray tracer in src/ray.py: Ray, Material, Hit, Sphere,    *)
(* Triangle, Camera, PointLight, AmbientLight, Scene, shade, render_image.  *)
(*                                                                         *)
(* Numbers.  A float is modelled in fixed point: the integer a stands for  *)
(* a / Unit, a product or quotient is rounded down to a multiple of        *)
(* 1 / Unit (as a float64 operation rounds to 53 bits), and three          *)
(* integers outside the range of the rest stand for +inf, -inf and NaN,    *)
(* with the IEEE rules: x/0 is inf or NaN, every comparison with NaN is    *)
(* false.  A colour is one channel: the source's colour operations are     *)
(* elementwise.  Vectors are <<x, y, z>>.                                  *)
(***************************************************************************)
EXTENDS Integers, Sequences, FiniteSets, TLC

\* The integer that stands for 1.0.
Unit == 16 * 16

Inf == 2 ^ 30
NInf == -(2 ^ 30)
NaN == 2 ^ 30 + 1

IsNum(a) == a # NaN /\ a # Inf /\ a # NInf

Sign(a) == IF a < 0 THEN -1 ELSE IF a > 0 THEN 1 ELSE 0

\* a * b and a / b on finite floats; a / 0 is +inf, -inf or NaN (the model
\* has no negative zero).
FMul(a, b) == (a * b) \div Unit
FDiv(a, b) ==
    IF b = 0 THEN (IF a > 0 THEN Inf ELSE IF a < 0 THEN NInf ELSE NaN)
    ELSE (a * Unit) \div b

\* a * b and a + b where a or b may be inf or NaN.
Mul(a, b) ==
    IF IsNum(a) /\ IsNum(b) THEN FMul(a, b)
    ELSE IF a = NaN \/ b = NaN \/ a = 0 \/ b = 0 THEN NaN
    ELSE IF (a > 0) = (b > 0) THEN Inf ELSE NInf
Add(a, b) ==
    IF IsNum(a) /\ IsNum(b) THEN a + b
    ELSE IF a = NaN \/ b = NaN THEN NaN
    ELSE IF IsNum(b) THEN a
    ELSE IF IsNum(a) \/ a = b THEN b ELSE NaN

\* 1 - a where a may be inf or NaN.
OneMinus(a) ==
    IF IsNum(a) THEN Unit - a
    ELSE IF a = NaN THEN NaN ELSE IF a = Inf THEN NInf ELSE Inf

\* The comparisons of floats.
Lt(a, b) == a # NaN /\ b # NaN /\ a < b
Le(a, b) == a # NaN /\ b # NaN /\ a <= b
Gt(a, b) == a # NaN /\ b # NaN /\ a > b
Ge(a, b) == a # NaN /\ b # NaN /\ a >= b
Eq(a, b) == a # NaN /\ b # NaN /\ a = b

\* np.maximum(0, a)
Maximum0(a) == IF a = NaN THEN NaN ELSE IF a < 0 THEN 0 ELSE a

\* a ** p for a whole exponent p >= 0, a finite or NaN.
RECURSIVE Pow(_, _)
Pow(a, p) == IF p = 0 THEN Unit ELSE Mul(a, Pow(a, p - 1))

RECURSIVE ISqrtIn(_, _, _)
ISqrtIn(n, lo, hi) ==
    IF lo >= hi THEN lo
    ELSE LET mid == (lo + hi + 1) \div 2
         IN  IF mid * mid <= n THEN ISqrtIn(n, mid, hi) ELSE ISqrtIn(n, lo, mid - 1)

\* np.sqrt, rounded down.
FSqrt(a) == IF a = NaN \/ a < 0 THEN NaN ELSE ISqrtIn(a * Unit, 0, 46340)

----------------------------------------------------------------------------
(* utils: vec, normalize, and the numpy vector operations the source uses. *)

vec(x, y, z) == <<x * Unit, y * Unit, z * Unit>>

VAdd(a, b) == <<a[1] + b[1], a[2] + b[2], a[3] + b[3]>>
VSub(a, b) == <<a[1] - b[1], a[2] - b[2], a[3] - b[3]>>
VScale(k, a) == <<FMul(k, a[1]), FMul(k, a[2]), FMul(k, a[3])>>
VDiv(a, k) == <<FDiv(a[1], k), FDiv(a[2], k), FDiv(a[3], k)>>
Dot(a, b) == FMul(a[1], b[1]) + FMul(a[2], b[2]) + FMul(a[3], b[3])
Cross(a, b) ==
    <<FMul(a[2], b[3]) - FMul(a[3], b[2]),
      FMul(a[3], b[1]) - FMul(a[1], b[3]),
      FMul(a[1], b[2]) - FMul(a[2], b[1])>>
Norm(a) == FSqrt(Dot(a, a))
normalize(a) == VDiv(a, Norm(a))

----------------------------------------------------------------------------
(* Ray, Material, Hit.                                                     *)

\* Python's None (a default argument, a field of no_hit): no float.
None == 2 ^ 30 + 2

Ray(origin, direction, start, end) ==
    [origin |-> origin, direction |-> direction, start |-> start, end |-> end]

Material(k_d, k_s, p, k_m, k_a) ==
    [k_d |-> k_d, k_s |-> k_s, p |-> p, k_m |-> k_m,
     k_a |-> IF k_a # None THEN k_a ELSE k_d]

\* A Hit object made by a constructor call; obj tells it from no_hit, the one
\* module-level Hit, which is what Python's != on two Hit objects compares.
Hit(t, point, normal, material) ==
    [t |-> t, point |-> point, normal |-> normal, material |-> material,
     obj |-> "Hit"]

no_hit ==
    [t |-> Inf, point |-> None, normal |-> None, material |-> None,
     obj |-> "no_hit"]

----------------------------------------------------------------------------
(* Sphere.                                                                 *)

Sphere(center, radius, material) ==
    [kind |-> "Sphere", center |-> center, radius |-> radius,
     material |-> material]

SphereDiscriminant(self, ray) ==
    LET D == ray.direction
        EC == VSub(ray.origin, self.center)
        R == self.radius
        B == 2 * Dot(D, EC)
        A == Dot(D, D)
    IN  FMul(B, B) - 4 * FMul(A, Dot(EC, EC) - FMul(R, R))

\* <<t0, t1>>, the two roots as the source computes them.
SphereRoots(self, ray, discriminant) ==
    LET D == ray.direction
        B == 2 * Dot(D, VSub(ray.origin, self.center))
        A == Dot(D, D)
    IN  <<FDiv(-1 * B - FSqrt(discriminant), 2 * A),
          FDiv(-1 * B + FSqrt(discriminant), 2 * A)>>

\* The Hit at t: P = E + t * D, unit_normal = (P - C) / R.
SphereHitAt(self, ray, t) ==
    Hit(t,
        VAdd(ray.origin, VScale(t, ray.direction)),
        VDiv(VSub(VAdd(ray.origin, VScale(t, ray.direction)), self.center),
             self.radius),
        self.material)

\* SphereSelect trying the far root first.
SphereSelectFar(self, ray, t) ==
    LET min_t == ray.start
        max_t == ray.end
    IN  IF Ge(t[2], min_t) /\ Le(t[2], max_t)
        THEN SphereHitAt(self, ray, t[2])
        ELSE IF Ge(t[1], min_t) /\ Le(t[1], max_t) /\ Le(t[1], t[2])
             THEN SphereHitAt(self, ray, t[1])
             ELSE no_hit

\* The choice between the roots t[1] = t0 and t[2] = t1.
SphereSelect(self, ray, t) ==
    LET min_t == ray.start
        max_t == ray.end
    IN  IF Ge(t[1], min_t) /\ Le(t[1], max_t) /\ Le(t[1], t[2])
        THEN SphereHitAt(self, ray, t[1])
        ELSE IF Ge(t[2], min_t) /\ Le(t[2], max_t)
             THEN SphereHitAt(self, ray, t[2])
             ELSE no_hit

SphereRootsOf(self, ray) == SphereRoots(self, ray, SphereDiscriminant(self, ray))

SphereIntersect(self, ray) ==
    IF Lt(SphereDiscriminant(self, ray), 0) THEN no_hit
    ELSE SphereSelect(self, ray, SphereRootsOf(self, ray))

----------------------------------------------------------------------------
(* Triangle.                                                               *)

Triangle(vs, material) == [kind |-> "Triangle", vs |-> vs, material |-> material]

\* The tests of Triangle.intersect on t, gamma and beta, and the Hit.
TriangleSelect(self, ray, t, gamma, beta) ==
    IF Lt(t, ray.start) \/ Gt(t, ray.end) THEN no_hit
    ELSE IF Lt(gamma, 0) \/ Gt(gamma, Unit) THEN no_hit
    ELSE IF Lt(beta, 0) \/ Gt(beta, OneMinus(gamma)) THEN no_hit
    ELSE Hit(t,
             <<Add(ray.origin[1], Mul(t, ray.direction[1])),
               Add(ray.origin[2], Mul(t, ray.direction[2])),
               Add(ray.origin[3], Mul(t, ray.direction[3]))>>,
             normalize(Cross(VSub(self.vs[1], self.vs[3]),
                             VSub(self.vs[2], self.vs[3]))),
             self.material)

\* Cramer's rule on the nine coefficients and the three differences.
TriangleSolve(self, ray, a, b, c, d, e, f, g, h, i, j, k, l) ==
    LET akjb == FMul(a, k) - FMul(j, b)
        jcal == FMul(j, c) - FMul(a, l)
        blkc == FMul(b, l) - FMul(k, c)
        eihf == FMul(e, i) - FMul(h, f)
        gfdi == FMul(g, f) - FMul(d, i)
        dheg == FMul(d, h) - FMul(e, g)
        M == FMul(a, eihf) + FMul(b, gfdi) + FMul(c, dheg)
    IN  TriangleSelect(self, ray,
            FDiv(-(FMul(f, akjb) + FMul(e, jcal) + FMul(d, blkc)), M),
            FDiv(FMul(i, akjb) + FMul(h, jcal) + FMul(g, blkc), M),
            FDiv(FMul(j, eihf) + FMul(k, gfdi) + FMul(l, dheg), M))

TriangleIntersect(self, ray) ==
    LET vs == self.vs
    IN  TriangleSolve(self, ray,
            vs[1][1] - vs[2][1], vs[1][2] - vs[2][2], vs[1][3] - vs[2][3],
            vs[1][1] - vs[3][1], vs[1][2] - vs[3][2], vs[1][3] - vs[3][3],
            ray.direction[1], ray.direction[2], ray.direction[3],
            vs[1][1] - ray.origin[1], vs[1][2] - ray.origin[2],
            vs[1][3] - ray.origin[3])

\* s.intersect(ray), dispatched on the class of s.
SurfIntersect(s, ray) ==
    IF s.kind = "Sphere" THEN SphereIntersect(s, ray) ELSE TriangleIntersect(s, ray)

----------------------------------------------------------------------------
(* Camera.                                                                 *)

\* np.tan(np.radians(vfov) / 2.0) for the field of view the model uses.
TanHalf(vfov) == CASE vfov = 90 -> Unit

Camera(eye, target, up, vfov, aspect) ==
    [eye |-> eye, aspect |-> aspect, target |-> target, vfov |-> vfov,
     w |-> normalize(VSub(eye, target)),
     u |-> normalize(Cross(up, normalize(VSub(eye, target)))),
     v |-> Cross(normalize(VSub(eye, target)),
                 normalize(Cross(up, normalize(VSub(eye, target)))))]

generate_ray(self, img_point) ==
    LET i == img_point[1]
        j == img_point[2]
        dist_vector == VSub(self.target, self.eye)
        proj_dist == Norm(dist_vector)
        height == FMul(2 * proj_dist, TanHalf(self.vfov))
        width == FMul(self.aspect, height)
        left == (-1 * width) \div 2
        bottom == (-1 * height) \div 2
        u == FMul(i, width) + left
        v == FMul(j, height) + bottom
        ray_origin == self.eye
        ray_direction ==
            VAdd(VAdd(VScale(-1 * proj_dist, self.w), VScale(u, self.u)),
                 VScale(v, self.v))
    IN  Ray(ray_origin, ray_direction, 0, Inf)

----------------------------------------------------------------------------
(* Scene.                                                                  *)

Scene(surfs, bg_color) == [surfs |-> surfs, bg_color |-> bg_color]

\* ScanStep with <= for <.
ScanStepLe(st, intersect) ==
    IF Le(intersect.t, st[1]) THEN <<intersect.t, intersect>> ELSE st

\* ScanStep without the update of min_t.
ScanStepKeepsMin(st, intersect) ==
    IF Lt(intersect.t, st[1]) THEN <<st[1], intersect>> ELSE st

\* One turn of the loop of Scene.intersect on st = <<min_t, i>>.
ScanStep(st, intersect) ==
    IF Lt(intersect.t, st[1]) THEN <<intersect.t, intersect>> ELSE st

\* The loop of Scene.intersect from surface k on.
RECURSIVE SceneScan(_, _, _, _)
SceneScan(surfaces, ray, k, st) ==
    IF k > Len(surfaces) THEN st[2]
    ELSE SceneScan(surfaces, ray, k + 1, ScanStep(st, SurfIntersect(surfaces[k], ray)))

\* Scene.intersect starting from a Hit of its own instead of no_hit.
SceneIntersectOwnMiss(self, ray) ==
    SceneScan(self.surfs, ray, 1, <<Inf, Hit(Inf, None, None, None)>>)

SceneIntersect(self, ray) == SceneScan(self.surfs, ray, 1, <<Inf, no_hit>>)

----------------------------------------------------------------------------
(* Lights.                                                                 *)

PointLight(position, intensity) ==
    [kind |-> "PointLight", position |-> position, intensity |-> intensity]

AmbientLight(intensity) == [kind |-> "AmbientLight", intensity |-> intensity]

\* epsilon of PointLight.illuminate (0.000001 in the source), at the scale of
\* the model's floats: four times the step between two floats.
Epsilon == Unit \div 64

\* The shadow ray of PointLight.illuminate: Ray(point, l, epsilon, 1).
ShadowRay(self, hit) ==
    LET l == VSub(self.position, hit.point)
        point == VAdd(hit.point, VScale(Epsilon, l))
    IN  Ray(point, l, Epsilon, Unit)

\* The second ray of PointLight.illuminate: Ray(hit.point, light_ray, epsilon).
ShadeRay(self, hit) ==
    LET light_ray == normalize(VSub(self.position, hit.point))
    IN  Ray(hit.point, light_ray, Epsilon, Inf)

\* dot(normal, light_ray) and dot(normal, h) of PointLight.illuminate.
NdotL(self, hit) == Dot(hit.normal, normalize(VSub(self.position, hit.point)))
NdotH(self, ray, hit) ==
    LET v == VScale(-1 * Unit, normalize(ray.direction))
        light_ray == normalize(VSub(self.position, hit.point))
        vl == VAdd(v, light_ray)
    IN  IF Norm(vl) = 0 THEN NaN  \* h = 0 / 0, a vector of NaN
        ELSE Dot(hit.normal, VDiv(vl, Norm(vl)))

\* dist_to_source ** 2
DistSquared(self, hit) ==
    LET dist_to_source == Norm(VSub(hit.point, self.position))
    IN  FMul(dist_to_source, dist_to_source)

\* specular_output of PointLight.illuminate.
SpecularOutput(self, ray, hit) ==
    LET intensity == self.intensity
        diffuse_coeff == hit.material.k_d
        specular_coeff == hit.material.k_s
        p == hit.material.p
    IN  Mul(Mul(Add(diffuse_coeff, Mul(specular_coeff, Pow(NdotH(self, ray, hit), p))),
                FDiv(Maximum0(NdotL(self, hit)), DistSquared(self, hit))),
            intensity)

\* PointLight.illuminate without its tests.
PointLightDecideUnshadowed(self, ray, hit, shadow_hit, shade_hit) ==
    SpecularOutput(self, ray, hit)

\* The two tests of PointLight.illuminate on the hits its two rays find.
PointLightDecide(self, ray, hit, shadow_hit, shade_hit) ==
    IF Gt(shadow_hit.t, Unit)
    THEN IF Eq(shade_hit.t, Inf) THEN SpecularOutput(self, ray, hit) ELSE 0
    ELSE 0

PointLightIlluminate(self, ray, hit, scene) ==
    PointLightDecide(self, ray, hit,
                     SceneIntersect(scene, ShadowRay(self, hit)),
                     SceneIntersect(scene, ShadeRay(self, hit)))

\* AmbientLight.illuminate reading k_d for k_a.
AmbientLightIlluminateKd(self, ray, hit, scene) ==
    FMul(hit.material.k_d, self.intensity)

AmbientLightIlluminate(self, ray, hit, scene) ==
    LET intensity == self.intensity
        diffuse_coeff == hit.material.k_a
    IN  FMul(diffuse_coeff, intensity)

\* light.illuminate(ray, hit, scene), dispatched on the class of light.
Illuminate(light, ray, hit, scene) ==
    IF light.kind = "PointLight" THEN PointLightIlluminate(light, ray, hit, scene)
    ELSE AmbientLightIlluminate(light, ray, hit, scene)

Call(ray, scene) == [ray |-> ray, hit |-> SceneIntersect(scene, ray)]

\* The scene.intersect calls of light.illuminate, in order: ray and result.
IlluminateCalls(light, hit, scene) ==
    IF light.kind # "PointLight" THEN <<>>
    ELSE IF Gt(SceneIntersect(scene, ShadowRay(light, hit)).t, Unit)
         THEN <<Call(ShadowRay(light, hit), scene), Call(ShadeRay(light, hit), scene)>>
         ELSE <<Call(ShadowRay(light, hit), scene)>>

----------------------------------------------------------------------------
(* shade: the constant, the mirror ray, the tests.                         *)

MAX_DEPTH == 4

\* The start of the mirror ray (0.0000001 in the source), at the scale of the
\* model's floats: smaller than Epsilon, as in the source.
MirrorEpsilon == Unit \div 128

\* m_ray of shade.
MirrorRay(ray, hit) ==
    LET normal == hit.normal
        r_dir == ray.direction
        m_dir == VSub(r_dir, VScale(2 * Dot(r_dir, normal), normal))
    IN  Ray(hit.point, m_dir, MirrorEpsilon, Inf)

\* if (hit.t < np.inf)
ShadeHits(hit) == Lt(hit.t, Inf)

\* The depth test with <= for <.
ShadeReflectsLe(depth) == depth <= MAX_DEPTH

\* if (depth < MAX_DEPTH)
ShadeReflects(depth) == depth < MAX_DEPTH

\* if (m_hit != no_hit): two Hit objects, compared by identity.
NotNoHit(m_hit) == m_hit.obj # no_hit.obj

----------------------------------------------------------------------------
(* shade as a function: the value one call returns.                        *)

RECURSIVE SumLights(_, _, _, _, _)
SumLights(lts, k, ray, hit, scn) ==
    IF k > Len(lts) THEN 0
    ELSE Add(Illuminate(lts[k], ray, hit, scn), SumLights(lts, k + 1, ray, hit, scn))

RECURSIVE shade(_, _, _, _, _)
\* The mirror term of shade, m_hit being what the mirror ray m_ray hits.
ShadeMirror(m_ray, m_hit, hit, scn, lts, depth) ==
    IF NotNoHit(m_hit)
    THEN Mul(hit.material.k_m, shade(m_ray, m_hit, scn, lts, depth + 1))
    ELSE FMul(hit.material.k_m, scn.bg_color)

shade(ray, hit, scn, lts, depth) ==
    IF ShadeHits(hit)
    THEN Add(IF ShadeReflects(depth)
             THEN ShadeMirror(MirrorRay(ray, hit),
                              SceneIntersect(scn, MirrorRay(ray, hit)),
                              hit, scn, lts, depth)
             ELSE 0,
             SumLights(lts, 1, ray, hit, scn))
    ELSE scn.bg_color

----------------------------------------------------------------------------
(* render_image: the image buffer.                                         *)

\* The store into the np.float32 image: float32 holds fewer floats than
\* float64 (in the model, the multiples of 1/16), any other is rounded to
\* the nearest.
Float32(a) == IF IsNum(a) THEN ((a + 8) \div 16) * 16 ELSE a

\* ((x + 0.5) / nx, (y + 0.5) / ny) of render_image.
PixelPoint(x, y, nx, ny) ==
    <<FDiv(x * Unit + Unit \div 2, nx * Unit), FDiv(y * Unit + Unit \div 2, ny * Unit)>>

----------------------------------------------------------------------------
(* The inputs of render_image the model draws from.                        *)

\* Largest nx and ny.
MaxN == 2

\* Longest list of surfaces.
MaxSurfs == 2

matte == Material(Unit \div 2, 0, 2, 0, None)
shiny == Material(Unit \div 4, Unit, 2, Unit \div 2, Unit \div 8)

ball == Sphere(vec(0, 0, 0), Unit, matte)
ball2 == Sphere(vec(0, 0, 0), Unit, shiny)
far == Sphere(vec(0, 0, 5), Unit \div 2, matte)
shell == Sphere(vec(0, 0, 0), 3 * Unit, shiny)
ceiling == Triangle(<<vec(-6, -6, 3), vec(6, -6, 3), vec(0, 6, 3)>>, shiny)

Surfaces == <<ball, ball2, far, shell, ceiling>>

\* The lists of at most n indices of Surfaces.
RECURSIVE IndexLists(_)
IndexLists(n) ==
    IF n = 0 THEN {<<>>}
    ELSE IndexLists(n - 1) \cup
         {Append(q, k) : q \in {r \in IndexLists(n - 1) : Len(r) = n - 1},
                         k \in 1..Len(Surfaces)}

\* The lists of one to MaxSurfs different surfaces.
SurfaceLists ==
    {[k \in 1..Len(q) |-> Surfaces[q[k]]] :
        q \in {r \in IndexLists(MaxSurfs) :
                 /\ Len(r) > 0
                 /\ \A a, b \in 1..Len(r) : a # b => r[a] # r[b]}}

LightLists ==
    {<<AmbientLight(Unit)>>,
     <<PointLight(vec(0, 0, 4), 4 * Unit), AmbientLight(Unit \div 2)>>,
     <<PointLight(vec(4, 0, 1), 4 * Unit)>>}

TheCamera == Camera(vec(0, 0, 2), vec(0, 0, 0), vec(0, 1, 0), 90, Unit)

BgColor == Unit \div 5

----------------------------------------------------------------------------
(* render_image and shade, step by step.                                   *)

VARIABLES
    camera, scene, lights, nx, ny,  \* the arguments of render_image
    img,        \* the image: img[<<y, x>>] is img[y][x]
    writes,     \* how many times each cell of img was stored into
    x, y,       \* the loop variables of render_image
    pc,         \* "pixel": in the loops; "shade": in a shade call; "done"
    stack,      \* the shade calls in progress, the innermost last
    calls,      \* the scene.intersect calls of the last step: ray and result
    nrefl,      \* mirror rays cast since the last camera ray
    ill         \* the last light.illuminate call: its arguments and result

vars == <<camera, scene, lights, nx, ny, img, writes, x, y, pc, stack, calls,
          nrefl, ill>>

inputs == <<camera, scene, lights, nx, ny>>

Cells == {<<r, c>> : r \in 0..(ny - 1), c \in 0..(nx - 1)}

\* The frame of a call shade(ray, hit, scene, lights, depth) at its start.
Frame(ray, hit, depth) ==
    [ray |-> ray, hit |-> hit, depth |-> depth, output |-> 0,
     phase |-> "enter", li |-> 1]

Top == stack[Len(stack)]

Init ==
    /\ camera = TheCamera
    /\ \E surfs \in SurfaceLists : scene = Scene(surfs, BgColor)
    /\ lights \in LightLists
    /\ nx \in 1..MaxN
    /\ ny \in 1..MaxN
    /\ img = [c \in Cells |-> 0]
    /\ writes = [c \in Cells |-> 0]
    /\ x = 0
    /\ y = 0
    /\ pc = "pixel"
    /\ stack = <<>>
    /\ calls = <<>>
    /\ nrefl = 0
    /\ ill = <<>>

\* ray = camera.generate_ray((u, v)); hit = scene.intersect(ray); shade(...)
CameraRay(ray, hit) ==
    /\ calls' = <<[ray |-> ray, hit |-> hit]>>
    /\ stack' = <<Frame(ray, hit, 0)>>

\* render_image, the body of the loops up to the call of shade.
RenderPixel ==
    /\ pc = "pixel"
    /\ x < nx
    /\ CameraRay(generate_ray(camera, PixelPoint(x, y, nx, ny)),
                 SceneIntersect(scene, generate_ray(camera, PixelPoint(x, y, nx, ny))))
    /\ pc' = "shade"
    /\ nrefl' = 0
    /\ UNCHANGED <<inputs, img, writes, x, y, ill>>

\* render_image: the loops are over, return img.
RenderReturn ==
    /\ pc = "pixel"
    /\ x >= nx
    /\ pc' = "done"
    /\ calls' = <<>>
    /\ UNCHANGED <<inputs, img, writes, x, y, stack, nrefl, ill>>

\* The store with the indices swapped: img[x][y].
StoreCellXY(px, py) == <<px, py>>

\* The cell img[y][x] = ... stores into.
StoreCell(px, py) == <<py, px>>

\* img[y][x] = ..., and the loops' next (x, y): y is the inner loop.
Store(c) ==
    /\ img' = [img EXCEPT ![StoreCell(x, y)] = Float32(c)]
    /\ writes' = [writes EXCEPT ![StoreCell(x, y)] = @ + 1]
    /\ IF y + 1 < ny THEN y' = y + 1 /\ x' = x ELSE y' = 0 /\ x' = x + 1

\* The innermost shade call returns c: into the shade call that made it
\* (output = output + k_m * shade(...)) or into render_image.
Return(c) ==
    IF Len(stack) > 1
    THEN /\ stack' = [SubSeq(stack, 1, Len(stack) - 1) EXCEPT
                        ![Len(stack) - 1].output =
                            Add(@, Mul(stack[Len(stack) - 1].hit.material.k_m, c)),
                        ![Len(stack) - 1].phase = "lights"]
         /\ UNCHANGED <<img, writes, x, y, pc>>
    ELSE /\ stack' = <<>>
         /\ Store(c)
         /\ pc' = "pixel"

\* shade: the hit is no hit, return bg_color.
ShadeBackground ==
    /\ pc = "shade"
    /\ Top.phase = "enter"
    /\ ~ShadeHits(Top.hit)
    /\ Return(scene.bg_color)
    /\ calls' = <<>>
    /\ UNCHANGED <<inputs, nrefl, ill>>

\* The mirror ray hits: shade(m_ray, m_hit, scene, lights, depth + 1).
MirrorHit(m_ray, m_hit) ==
    /\ NotNoHit(m_hit)
    /\ calls' = <<[ray |-> m_ray, hit |-> m_hit]>>
    /\ stack' = Append([stack EXCEPT ![Len(stack)].phase = "wait"],
                       Frame(m_ray, m_hit, Top.depth + 1))

\* The mirror ray hits nothing: output = output + k_m * bg_color.
MirrorMiss(m_ray, m_hit) ==
    /\ ~NotNoHit(m_hit)
    /\ calls' = <<[ray |-> m_ray, hit |-> m_hit]>>
    /\ stack' = [stack EXCEPT
                   ![Len(stack)].output =
                       @ + FMul(Top.hit.material.k_m, scene.bg_color),
                   ![Len(stack)].phase = "lights"]

ShadeMirrorHit ==
    /\ pc = "shade"
    /\ Top.phase = "enter"
    /\ ShadeHits(Top.hit)
    /\ ShadeReflects(Top.depth)
    /\ MirrorHit(MirrorRay(Top.ray, Top.hit),
                 SceneIntersect(scene, MirrorRay(Top.ray, Top.hit)))
    /\ nrefl' = nrefl + 1
    /\ UNCHANGED <<inputs, img, writes, x, y, pc, ill>>

ShadeMirrorMiss ==
    /\ pc = "shade"
    /\ Top.phase = "enter"
    /\ ShadeHits(Top.hit)
    /\ ShadeReflects(Top.depth)
    /\ MirrorMiss(MirrorRay(Top.ray, Top.hit),
                  SceneIntersect(scene, MirrorRay(Top.ray, Top.hit)))
    /\ nrefl' = nrefl + 1
    /\ UNCHANGED <<inputs, img, writes, x, y, pc, ill>>

\* shade at depth MAX_DEPTH: no mirror ray.
ShadeNoMirror ==
    /\ pc = "shade"
    /\ Top.phase = "enter"
    /\ ShadeHits(Top.hit)
    /\ ~ShadeReflects(Top.depth)
    /\ stack' = [stack EXCEPT ![Len(stack)].phase = "lights"]
    /\ calls' = <<>>
    /\ UNCHANGED <<inputs, img, writes, x, y, pc, nrefl, ill>>

\* output = output + light.illuminate(ray, hit, scene), c being its value.
LightStep(light, c) ==
    /\ stack' = [stack EXCEPT ![Len(stack)].output = Add(@, c),
                              ![Len(stack)].li = @ + 1]
    /\ ill' = [light |-> light, ray |-> Top.ray, hit |-> Top.hit, result |-> c]

\* shade: one turn of the loop over the lights.
ShadeLight ==
    /\ pc = "shade"
    /\ Top.phase = "lights"
    /\ Top.li <= Len(lights)
    /\ LightStep(lights[Top.li], Illuminate(lights[Top.li], Top.ray, Top.hit, scene))
    /\ calls' = IlluminateCalls(lights[Top.li], Top.hit, scene)
    /\ UNCHANGED <<inputs, img, writes, x, y, pc, nrefl>>

\* shade: return output.
ShadeReturn ==
    /\ pc = "shade"
    /\ Top.phase = "lights"
    /\ Top.li > Len(lights)
    /\ Return(Top.output)
    /\ calls' = <<>>
    /\ UNCHANGED <<inputs, nrefl, ill>>

Next ==
    \/ RenderPixel
    \/ RenderReturn
    \/ ShadeBackground
    \/ ShadeMirrorHit
    \/ ShadeMirrorMiss
    \/ ShadeNoMirror
    \/ ShadeLight
    \/ ShadeReturn

Spec == Init /\ [][Next]_vars

----------------------------------------------------------------------------
(* What the claims speak of.                                               *)

\* The t each surface of the scene reports for ray, in list order.
SurfaceTs(ray) == [k \in 1..Len(scene.surfs) |-> SurfIntersect(scene.surfs[k], ray).t]

\* h1 and h2 are the same hit: both no_hit, or Hits of equal fields.
SameHit(h1, h2) == h1.obj = h2.obj /\ (h1.obj = "no_hit" \/ h1 = h2)

\* The last illuminate call was a PointLight's.
PointLit == ill # <<>> /\ ill.light.kind = "PointLight"

\* What the two rays of that call hit.
ShadowHit == SceneIntersect(scene, ShadowRay(ill.light, ill.hit))
ShadeRayHit == SceneIntersect(scene, ShadeRay(ill.light, ill.hit))

\* The camera ray of cell c = <<y, x>> and what it hits.
CellRay(c) == generate_ray(camera, PixelPoint(c[2], c[1], nx, ny))
CellHit(c) == SceneIntersect(scene, CellRay(c))

\* The cells the loops have passed: x is the outer loop, y the inner.
Passed(c) == c[2] < x \/ (c[2] = x /\ c[1] < y)

----------------------------------------------------------------------------
\* C1: every Scene.intersect call returns the hit of smallest t among the
\* surfaces' hits, the first in list order among equal t, and the no_hit
\* object when no surface reports a t below +inf.
C1_ClosestFirst ==
    \A n \in 1..Len(calls) :
        LET ray == calls[n].ray
            hit == calls[n].hit
            ts == SurfaceTs(ray)
        IN  IF \A k \in 1..Len(ts) : ~Lt(ts[k], Inf)
            THEN hit.obj = "no_hit" /\ hit.t = Inf
            ELSE \E k \in 1..Len(ts) :
                    /\ Lt(ts[k], Inf)
                    /\ \A j \in 1..Len(ts) : ~Lt(ts[j], ts[k])
                    /\ \A j \in 1..(k - 1) : ~Eq(ts[j], ts[k])
                    /\ hit = SurfIntersect(scene.surfs[k], ray)

\* A call in which two surfaces report the same finite t, and the result is
\* the hit of the first of them.
C1_Witness ==
    \E n \in 1..Len(calls) :
        LET ts == SurfaceTs(calls[n].ray)
        IN  /\ Len(ts) = 2
            /\ Lt(ts[1], Inf)
            /\ Eq(ts[1], ts[2])
            /\ scene.surfs[1].material # scene.surfs[2].material
            /\ calls[n].hit.obj = "Hit"
            /\ calls[n].hit.material = scene.surfs[1].material

----------------------------------------------------------------------------
\* C6: for every ray the program casts and every two surfaces of the scene
\* that report different t for it, Scene.intersect on the list of the two
\* returns the same hit in both orders, and it is the one of smaller t.
C6_OrderIndependent ==
    \A n \in 1..Len(calls) :
        \A j, k \in 1..Len(scene.surfs) :
            j < k =>
                LET ray == calls[n].ray
                    a == scene.surfs[j]
                    b == scene.surfs[k]
                    ha == SurfIntersect(a, ray)
                    hb == SurfIntersect(b, ray)
                    ab == SceneIntersect(Scene(<<a, b>>, scene.bg_color), ray)
                    ba == SceneIntersect(Scene(<<b, a>>, scene.bg_color), ray)
                IN  (Lt(ha.t, hb.t) \/ Lt(hb.t, ha.t)) =>
                        /\ SameHit(ab, ba)
                        /\ ab.obj = "Hit"
                        /\ ab = IF Lt(ha.t, hb.t) THEN ha ELSE hb

\* A ray that hits two surfaces of the scene at different finite t, the
\* farther one first in the list.
C6_Witness ==
    \E n \in 1..Len(calls) :
        LET ts == SurfaceTs(calls[n].ray)
        IN  /\ Len(ts) = 2
            /\ Lt(ts[2], ts[1])
            /\ Lt(ts[1], Inf)
            /\ calls[n].hit.obj = "Hit"
            /\ calls[n].hit.t = ts[2]

----------------------------------------------------------------------------
\* C8: for every ray the program casts and every sphere of the scene,
\* Sphere.intersect returns no_hit when the discriminant is negative;
\* otherwise the roots are t0 <= t1 and it returns a Hit at t0 when
\* start <= t0 <= end, else a Hit at t1 when start <= t1 <= end, else
\* no_hit; a Hit it returns has start <= t <= end.
C8_SmallestRootInRange ==
    \A n \in 1..Len(calls) :
        \A k \in 1..Len(scene.surfs) :
            scene.surfs[k].kind = "Sphere" =>
                LET ray == calls[n].ray
                    self == scene.surfs[k]
                    r == SphereIntersect(self, ray)
                    t == SphereRootsOf(self, ray)
                    In(a) == ray.start <= a /\ a <= ray.end
                IN  /\ r.obj = "Hit" => ray.start <= r.t /\ r.t <= ray.end
                    /\ IF SphereDiscriminant(self, ray) < 0 THEN r.obj = "no_hit"
                       ELSE /\ t[1] <= t[2]
                            /\ IF In(t[1]) THEN r.obj = "Hit" /\ r.t = t[1]
                               ELSE IF In(t[2]) THEN r.obj = "Hit" /\ r.t = t[2]
                               ELSE r.obj = "no_hit"

\* A ray that starts inside a sphere: t0 is before the start of the ray,
\* and the Hit is at t1.
C8_Witness ==
    \E n \in 1..Len(calls) :
        \E k \in 1..Len(scene.surfs) :
            /\ scene.surfs[k].kind = "Sphere"
            /\ SphereDiscriminant(scene.surfs[k], calls[n].ray) > 0
            /\ SphereRootsOf(scene.surfs[k], calls[n].ray)[1] < calls[n].ray.start
            /\ SphereIntersect(scene.surfs[k], calls[n].ray).obj = "Hit"
            /\ SphereIntersect(scene.surfs[k], calls[n].ray).t =
                   SphereRootsOf(scene.surfs[k], calls[n].ray)[2]

----------------------------------------------------------------------------
\* C10: every Scene.intersect call returns the no_hit object exactly when
\* the t of what it returns is +inf, so NotNoHit and ShadeHits decide alike
\* on it; and the hit of every nested shade call is a Hit of finite t that a
\* surface of the scene made for its ray, with its point, normal and material.
C10_NoHitIffInf ==
    /\ \A n \in 1..Len(calls) :
        /\ (calls[n].hit.obj = "no_hit") <=> (calls[n].hit.t = Inf)
        /\ NotNoHit(calls[n].hit) <=> ShadeHits(calls[n].hit)
    /\ \A k \in 2..Len(stack) :
        /\ stack[k].hit.obj = "Hit"
        /\ stack[k].hit.t < Inf
        /\ stack[k].phase = "enter" =>
              \E j \in 1..Len(scene.surfs) :
                  stack[k].hit = SurfIntersect(scene.surfs[j], stack[k].ray)

\* A call in which a surface returns a Hit object of its own with t = +inf,
\* and Scene.intersect returns no_hit.
C10_Witness ==
    \E n \in 1..Len(calls) :
        /\ calls[n].hit.obj = "no_hit"
        /\ \E k \in 1..Len(scene.surfs) :
            LET h == SurfIntersect(scene.surfs[k], calls[n].ray)
            IN  h.obj = "Hit" /\ h.t = Inf

----------------------------------------------------------------------------
\* The shade calls in progress are nested one depth apart and none is deeper
\* than MAX_DEPTH; a call at depth MAX_DEPTH never waits for a mirror ray and
\* comes to its lights with nothing added; no more than MAX_DEPTH mirror
\* rays were cast since the camera ray.
DepthBounded ==
    /\ nrefl <= MAX_DEPTH
    /\ \A k \in 1..Len(stack) :
        /\ stack[k].depth = k - 1
        /\ stack[k].depth <= MAX_DEPTH
        /\ stack[k].depth = MAX_DEPTH =>
            /\ stack[k].phase # "wait"
            /\ (stack[k].phase = "lights" /\ stack[k].li = 1) => stack[k].output = 0

\* The steps a shade call in progress has left, at most: one for the mirror
\* ray or its absence, those of the nested call, one for each light, and
\* one for the return.
FrameRank(f) ==
    IF f.phase = "enter" THEN (MAX_DEPTH - f.depth + 1) * (Len(lights) + 2)
    ELSE IF f.phase = "wait" THEN Len(lights) + 1
    ELSE Len(lights) - f.li + 2

RECURSIVE StackRank(_)
StackRank(k) == IF k = 0 THEN 0 ELSE FrameRank(stack[k]) + StackRank(k - 1)

\* Some step of shade can be taken: the conditions of shade's branches, one
\* disjunct for each.
ShadeCanStep ==
    /\ Len(stack) > 0
    /\ \/ Top.phase = "enter" /\ ~ShadeHits(Top.hit)
       \/ Top.phase = "enter" /\ ShadeHits(Top.hit) /\ ShadeReflects(Top.depth)
       \/ Top.phase = "enter" /\ ShadeHits(Top.hit) /\ ~ShadeReflects(Top.depth)
       \/ Top.phase = "lights" /\ Top.li <= Len(lights)
       \/ Top.phase = "lights" /\ Top.li > Len(lights)

\* C2: shade at depth 0 returns to render_image, whatever the scene: while
\* it runs it can take a step, and every step leaves it fewer steps to take
\* (StackRank, which is never negative); until then no nested call is deeper
\* than MAX_DEPTH = 4, a call at depth MAX_DEPTH casts no mirror ray and adds
\* no reflection, and at most MAX_DEPTH mirror rays follow one camera ray.
C2_ShadeTerminates ==
    /\ [](DepthBounded /\ StackRank(Len(stack)) >= 0
            /\ (pc = "shade" => ShadeCanStep))
    /\ [][pc = "shade" => StackRank(Len(stack))' < StackRank(Len(stack))]_vars

\* Every mirror ray hits again: a shade call at depth MAX_DEPTH, reached
\* through MAX_DEPTH mirror rays, is at its lights.
C2_Witness ==
    /\ Len(stack) = MAX_DEPTH + 1
    /\ nrefl = MAX_DEPTH
    /\ Top.depth = MAX_DEPTH
    /\ Top.phase = "lights"

----------------------------------------------------------------------------
\* C3: a PointLight.illuminate call whose shadow ray hits a surface at
\* t <= 1 returns zero, whatever the material and the intensity.
C3_OccludedIsZero ==
    PointLit => (Le(ShadowHit.t, Unit) => ill.result = 0)

\* An illuminate call with a surface between the point and the light, the
\* light being on the lit side of a surface that is not black.
C3_Witness ==
    /\ PointLit
    /\ Le(ShadowHit.t, Unit)
    /\ ShadowHit.obj = "Hit"
    /\ Gt(NdotL(ill.light, ill.hit), 0)
    /\ Gt(SpecularOutput(ill.light, ill.ray, ill.hit), 0)

----------------------------------------------------------------------------
\* I * (k_d * max(0, N.L) + k_s * max(0, N.H)^p) / dist^2
BlinnPhongSum(self, ray, hit) ==
    LET sum == Add(Mul(hit.material.k_d, Maximum0(NdotL(self, hit))),
                   Mul(hit.material.k_s,
                       Pow(Maximum0(NdotH(self, ray, hit)), hit.material.p)))
    IN  IF IsNum(sum) THEN Mul(self.intensity, FDiv(sum, DistSquared(self, hit)))
        ELSE sum

\* a and b are the same float, but for the rounding of a few operations.
Near(a, b) ==
    IF IsNum(a) /\ IsNum(b) THEN a - b <= Unit \div 32 /\ b - a <= Unit \div 32
    ELSE a = b

\* C7: a PointLight.illuminate call neither of whose two rays hits a surface
\* returns I * (k_d * max(0, N.L) + k_s * max(0, N.H)^p) / dist^2.
C7_SpecularAdded ==
    (PointLit /\ Gt(ShadowHit.t, Unit) /\ Eq(ShadeRayHit.t, Inf)) =>
        Near(ill.result, BlinnPhongSum(ill.light, ill.ray, ill.hit))

----------------------------------------------------------------------------
\* What the second ray hits lies beyond the light: farther from the point
\* than the light is, by more than the rays' epsilon.
BeyondLight ==
    /\ Lt(ShadeRayHit.t, Inf)
    /\ Gt(ShadeRayHit.t, Norm(VSub(ill.light.position, ill.hit.point)) + Epsilon)

\* C9: when the shadow ray of a PointLight.illuminate call hits nothing up
\* to the light (t > 1), a surface beyond the light is nothing its second
\* ray hits, and does not make the contribution zero: the two checks agree.
C9_ChecksAgree ==
    (PointLit /\ Gt(ShadowHit.t, Unit)) =>
        (BeyondLight => (Eq(ShadeRayHit.t, Inf) /\ ill.result # 0))

----------------------------------------------------------------------------
\* The scene is one sphere and the lights are one AmbientLight.
OneSphereAmbient ==
    /\ Len(scene.surfs) = 1
    /\ scene.surfs[1].kind = "Sphere"
    /\ Len(lights) = 1
    /\ lights[1].kind = "AmbientLight"

\* C4 as the spec states it: in such a scene every stored pixel whose camera
\* ray hits the sphere is k_a * intensity, nothing added, and every other
\* stored pixel is the background colour (each as the float32 image holds it).
C4_AmbientOnly ==
    OneSphereAmbient =>
        \A c \in Cells :
            writes[c] > 0 =>
                img[c] = IF ShadeHits(CellHit(c))
                         THEN Float32(FMul(CellHit(c).material.k_a, lights[1].intensity))
                         ELSE Float32(scene.bg_color)

\* What shade adds for the mirror ray of the camera ray of cell c: k_m times
\* the colour found along the mirror ray, the background colour when the
\* mirror ray leaves the scene.
CellMirror(c) ==
    ShadeMirror(MirrorRay(CellRay(c), CellHit(c)),
                SceneIntersect(scene, MirrorRay(CellRay(c), CellHit(c))),
                CellHit(c), scene, lights, 0)

\* C4, amended: in such a scene every stored pixel whose camera ray hits the
\* sphere is k_a * intensity plus k_m times the colour found along the
\* mirror ray, so k_a * intensity when k_m is 0; every other stored pixel is
\* the background colour.
C4_AmbientPlusMirror ==
    OneSphereAmbient =>
        \A c \in Cells :
            writes[c] > 0 =>
                /\ img[c] =
                     IF ShadeHits(CellHit(c))
                     THEN Float32(Add(CellMirror(c),
                                      FMul(CellHit(c).material.k_a, lights[1].intensity)))
                     ELSE Float32(scene.bg_color)
                /\ (ShadeHits(CellHit(c)) /\ CellHit(c).material.k_m = 0) =>
                     img[c] = Float32(FMul(CellHit(c).material.k_a, lights[1].intensity))

\* render_image has returned the image of one sphere with k_m # 0 and
\* k_a # k_d under one AmbientLight, and a camera ray hit the sphere.
C4_Witness ==
    /\ pc = "done"
    /\ OneSphereAmbient
    /\ scene.surfs[1].material.k_m # 0
    /\ scene.surfs[1].material.k_a # scene.surfs[1].material.k_d
    /\ \E c \in Cells : ShadeHits(CellHit(c)) /\ img[c] # 0

----------------------------------------------------------------------------
\* The steps render_image has left, at most.
Rank ==
    IF pc = "done" THEN 0
    ELSE 1 + StackRank(Len(stack))
           + (Cardinality({c \in Cells : ~Passed(c)}) - (IF pc = "shade" THEN 1 ELSE 0))
               * ((MAX_DEPTH + 1) * (Len(lights) + 2) + 1)

\* The image so far: a cell the loops have passed was stored into once, any
\* other cell was not stored into and holds 0; there are no cells but those
\* of the ny x nx grid, and the loops end when they have passed them all.
ImageSoFar ==
    /\ DOMAIN img = Cells
    /\ DOMAIN writes = Cells
    /\ \A c \in Cells : writes[c] = IF Passed(c) THEN 1 ELSE 0
    /\ \A c \in Cells : ~Passed(c) => img[c] = 0
    /\ pc = "done" => \A c \in Cells : Passed(c)

\* The step that ends the shade call of render_image stores, into
\* img[y][x], shade at depth 0 of the camera ray of (x, y) and of what
\* Scene.intersect returns for it, as the float32 image holds it.
StoresShade ==
    (pc = "shade" /\ pc' = "pixel") =>
        img'[<<y, x>>] =
            Float32(shade(CellRay(<<y, x>>), CellHit(<<y, x>>), scene, lights, 0))

\* C5: render_image returns (it can take a step until it has, and every step
\* leaves it fewer steps to take), having stored once into every cell of the
\* ny x nx grid and into no other; the value stored in img[y][x] is shade at
\* depth 0 of the camera ray of ((x + 0.5) / nx, (y + 0.5) / ny) and of what
\* Scene.intersect returns for it; a step changes no cell but the one it
\* stores into.
C5_EveryPixelOnce ==
    /\ [](ImageSoFar /\ Rank >= 0 /\ (pc = "shade" => ShadeCanStep)
            /\ pc \in {"pixel", "shade", "done"})
    /\ [][/\ Rank' < Rank
          /\ StoresShade
          /\ \A c \in Cells : writes'[c] = writes[c] => img'[c] = img[c]]_vars

\* render_image has returned an image of more columns than rows, in which
\* two cells differ.
C5_Witness ==
    /\ pc = "done"
    /\ nx > ny
    /\ \A c \in Cells : writes[c] = 1
    /\ \E c, d \in Cells : img[c] # img[d]

====
